---- MODULE Spec2Model ----
(***************************************************************************)
(* A model of the meet-display server (src/server.js): the projection of   *)
(* the fetched document rows into lifters and attempts, the scoring passes *)
(* (calculateBestLifts, calculatePlacings), and the poll / publish cycle   *)
(* around the in-memory snapshot meetData and the connectedClients list.   *)
(*                                                                         *)
(* Conventions                                                             *)
(*  - A JavaScript value whose type matters to the code (it is parsed,     *)
(*    lower-cased or tested for null) is a record [t, n, s]: t is the      *)
(*    typeof, n the number, s the string.                                  *)
(*  - An identifier string is the pair <<first character, rest>>, so that  *)
(*    startsWith(c) is a test of the first component.                      *)
(*  - A JavaScript object used as an id-keyed map is the sequence of its   *)
(*    values in key insertion order (what Object.values returns).          *)
(*  - place: null is the number NoPlace.                                   *)
(***************************************************************************)
EXTENDS Integers, Sequences, FiniteSets, TLC

\* ------------------------------------------------------------------ bounds
\* declared attempt weights range over 0..MaxWeight
MaxWeight == 2
\* declared bodyweights range over 0..MaxBody
MaxBody == 3
\* WebSocket connections that are ever opened
MaxClients == 2
\* calls of updateMeetData that reach fetchData
MaxCycles == 2
\* bodyweights handed to getWeightClass range over 0..MaxClassBody
MaxClassBody == 5

\* ---------------------------------------------------------- JavaScript values
Undef == [t |-> "undefined", n |-> 0, s |-> ""]
Null == [t |-> "null", n |-> 0, s |-> ""]
NaN == [t |-> "NaN", n |-> 0, s |-> ""]
Num(k) == [t |-> "number", n |-> k, s |-> ""]
Str(x) == [t |-> "string", n |-> 0, s |-> x]

\* if (v) ...: undefined, null, NaN, 0 and "" are falsy
Truthy(v) ==
    CASE v.t = "number" -> v.n # 0
      [] v.t = "string" -> v.s # ""
      [] OTHER -> FALSE

\* the leading decimal number of a string (parseFloat, parseInt): "2kg" is 2
LeadingNumber(x) ==
    CASE x = "0" -> Num(0)
      [] x = "1" -> Num(1)
      [] x = "2" -> Num(2)
      [] x = "3" -> Num(3)
      [] x = "4" -> Num(4)
      [] x = "2kg" -> Num(2)
      [] OTHER -> NaN

\* the whole string as a number (the > operator's ToNumber): "2kg" is NaN, "" is 0
WholeNumber(x) ==
    CASE x = "" -> Num(0)
      [] x = "2kg" -> NaN
      [] OTHER -> LeadingNumber(x)

\* parseFloat(v) and, on the integers of the model, parseInt(v)
ParseFloat(v) ==
    CASE v.t = "number" -> v
      [] v.t = "string" -> LeadingNumber(v.s)
      [] OTHER -> NaN

\* v > 0
GreaterThanZero(v) ==
    CASE v.t = "number" -> v.n > 0
      [] v.t = "string" -> WholeNumber(v.s).t = "number" /\ WholeNumber(v.s).n > 0
      [] OTHER -> FALSE

\* x || 0 on a number
OrZero(v) == IF v.t = "number" THEN v.n ELSE 0

\* String.prototype.toLowerCase on the discipline and result names of the feed
ToLowerCase(x) ==
    CASE x = "Squat" -> "squat"
      [] x = "Bench" -> "bench"
      [] x = "Dead" -> "dead"
      [] x = "DEADLIFT" -> "deadlift"
      [] x = "GOOD" -> "good"
      [] x = "Good" -> "good"
      [] x = "BAD" -> "bad"
      [] OTHER -> x

\* String.prototype.toUpperCase on the gender values of the feed
ToUpperCase(x) ==
    CASE x = "male" -> "MALE"
      [] x = "female" -> "FEMALE"
      [] x = "x" -> "X"
      [] OTHER -> x

Abs(k) == IF k < 0 THEN -k ELSE k

\* ------------------------------------------------------------- identifiers
NoId == <<"", "">>
StartsWith(id, c) == id[1] = c

\* ------------------------------------------------------------------- rows
\* One row of the feed. hasDoc = FALSE is a row without a doc; an absent
\* field is "" / NoId / Undef.
Row(id) ==
    [hasDoc |-> TRUE, _id |-> id, name |-> "", birthDate |-> "", gender |-> "",
     bodyWeight |-> Undef, divisionId |-> NoId, lifterId |-> NoId,
     liftName |-> Undef, attemptNumber |-> Undef, weight |-> Undef,
     result |-> Undef, clockState |-> Undef, platformId |-> NoId,
     position |-> "", decision |-> Undef, clockTimerLength |-> Undef]

NoDocRow == [Row(NoId) EXCEPT !.hasDoc = FALSE]

\* --------------------------------------------------- federation configuration
\* federations.json: code -> weight-class labels per sex. A label is the
\* pair <<number, suffix>>, the text of the number followed by "" or "+".
FederationCodes == <<"IPF", "APA">>

FederationConfigs(code) ==
    CASE code = "IPF" -> [MALE |-> <<<<4, "">>, <<2, "">>, <<4, "+">>>>,
                          FEMALE |-> <<<<1, "">>, <<3, "">>, <<3, "+">>>>]
      [] code = "APA" -> [MALE |-> <<<<3, "">>, <<3, "+">>>>,
                          FEMALE |-> <<>>]

HasConfig(code) == \E i \in 1..Len(FederationCodes) : FederationCodes[i] = code

\* ------------------------------------------------------ id-keyed objects
IndexOf(obj, id) ==
    IF \E i \in 1..Len(obj) : obj[i].id = id
    THEN CHOOSE i \in 1..Len(obj) : obj[i].id = id
    ELSE 0

Has(obj, id) == IndexOf(obj, id) # 0
Get(obj, id) == obj[IndexOf(obj, id)]

\* obj[rec.id] = rec: a new key is appended, an existing key keeps its position
Put(obj, rec) ==
    IF Has(obj, rec.id) THEN [obj EXCEPT ![IndexOf(obj, rec.id)] = rec]
    ELSE Append(obj, rec)

\* --------------------------------------------------------- mapWeightClasses
\* .map(replace "+").map(parseFloat).filter(!isNaN).sort(a - b)
Thresholds(labels) ==
    SortSeq([i \in 1..Len(labels) |-> labels[i][1]], LAMBDA a, b : a < b)

ThresholdsOf(federation, sexKey) ==
    LET config == IF HasConfig(federation) THEN FederationConfigs(federation)
                  ELSE FederationConfigs("IPF")
    IN  IF sexKey = "FEMALE" THEN Thresholds(config.FEMALE)
        ELSE Thresholds(config.MALE)

\* bodyweight < w in place of bodyweight <= w
MutgetWeightClass(federation, sex, bodyweight) ==
    IF bodyweight = 0 \/ sex = "" THEN <<0, "">>
    ELSE LET key == ToUpperCase(sex)
             upper == IF key \in {"MALE", "FEMALE"} THEN ThresholdsOf(federation, key)
                      ELSE ThresholdsOf(federation, "MALE")
         IN  IF Len(upper) = 0 THEN <<0, "">>
             ELSE IF \E i \in 1..Len(upper) : bodyweight < upper[i]
                  THEN <<upper[CHOOSE i \in 1..Len(upper) :
                                 /\ bodyweight < upper[i]
                                 /\ \A j \in 1..(i - 1) : bodyweight >= upper[j]], "">>
                  ELSE <<upper[Len(upper)], "+">>

\* the closure getWeightClass(sex, bodyweight) of mapWeightClasses(federation)
getWeightClass(federation, sex, bodyweight) ==
    IF bodyweight = 0 \/ sex = "" THEN <<0, "">>
    ELSE LET key == ToUpperCase(sex)
             upper == IF key \in {"MALE", "FEMALE"} THEN ThresholdsOf(federation, key)
                      ELSE ThresholdsOf(federation, "MALE")
         IN  IF Len(upper) = 0 THEN <<0, "">>
             ELSE IF \E i \in 1..Len(upper) : bodyweight <= upper[i]
                  THEN <<upper[CHOOSE i \in 1..Len(upper) :
                                 /\ bodyweight <= upper[i]
                                 /\ \A j \in 1..(i - 1) : bodyweight > upper[j]], "">>
                  ELSE <<upper[Len(upper)], "+">>

\* ---------------------------------------------------------- processDivisions
RECURSIVE DivisionsFrom(_, _, _)
DivisionsFrom(rows, i, acc) ==
    IF i > Len(rows) THEN acc
    ELSE LET doc == rows[i]
         IN  IF doc.hasDoc /\ StartsWith(doc._id, "d") /\ doc.name # ""
             THEN DivisionsFrom(rows, i + 1, Put(acc, [id |-> doc._id, name |-> doc.name]))
             ELSE DivisionsFrom(rows, i + 1, acc)

processDivisions(rows) == DivisionsFrom(rows, 1, <<>>)

\* ----------------------------------------------------------- processMeetInfo
\* meetInfo of the first doc whose _id starts with "m", else {}; units
\* defaults to "KG"
EmptyMeetInfo == [name |-> "", units |-> ""]

RECURSIVE MeetInfoFrom(_, _)
MeetInfoFrom(rows, i) ==
    IF i > Len(rows) THEN EmptyMeetInfo
    ELSE IF rows[i].hasDoc /\ StartsWith(rows[i]._id, "m")
         THEN [name |-> rows[i].name, units |-> "KG"]
         ELSE MeetInfoFrom(rows, i + 1)

processMeetInfo(rows) == MeetInfoFrom(rows, 1)

\* ---------------------------------------------------------- processPlatforms
MsPerSecond == 1000
DefaultTimer == 60

\* a clockState object { remaining: v }, v a number or undefined
ClockState(remaining) == [t |-> "object", n |-> remaining.n, s |-> remaining.t]

\* typeof clockState === "object" holds of objects and of null
TypeofObject(clockState) == clockState.t \in {"object", "null"}

\* clockState?.remaining
RemainingOf(clockState) ==
    IF clockState.t = "object" THEN [t |-> clockState.s, n |-> clockState.n, s |-> ""]
    ELSE Undef

\* timerRemaining: remaining / 1000 if truthy, else clockTimerLength / 1000 if
\* truthy, else 60
TimerRemaining(doc) ==
    IF TypeofObject(doc.clockState) /\ Truthy(RemainingOf(doc.clockState))
    THEN RemainingOf(doc.clockState).n \div MsPerSecond
    ELSE IF Truthy(doc.clockTimerLength)
         THEN doc.clockTimerLength.n \div MsPerSecond
         ELSE DefaultTimer

RECURSIVE PlatformsFrom(_, _, _)
PlatformsFrom(rows, i, acc) ==
    IF i > Len(rows) THEN acc
    ELSE LET doc == rows[i]
         IN  IF /\ doc.hasDoc
                /\ StartsWith(doc._id, "p")
                /\ doc.name # ""
                /\ doc.clockState # Undef
             THEN PlatformsFrom(rows, i + 1,
                      Put(acc, [id |-> doc._id, name |-> doc.name,
                                timerRemaining |-> TimerRemaining(doc),
                                clockTimerLength |-> doc.clockTimerLength,
                                lights |-> <<>>]))
             ELSE PlatformsFrom(rows, i + 1, acc)

processPlatforms(rows) == PlatformsFrom(rows, 1, <<>>)

\* ----------------------------------------------------------- processReferees
RECURSIVE RefereesFrom(_, _, _)
RefereesFrom(rows, i, acc) ==
    IF i > Len(rows) THEN acc
    ELSE LET doc == rows[i]
         IN  IF /\ doc.hasDoc
                /\ StartsWith(doc._id, "r")
                /\ doc.platformId # NoId
                /\ doc.position # ""
             THEN RefereesFrom(rows, i + 1,
                      Put(acc, [id |-> doc._id, platformId |-> doc.platformId,
                                position |-> doc.position, decision |-> doc.decision]))
             ELSE RefereesFrom(rows, i + 1, acc)

processReferees(rows) == RefereesFrom(rows, 1, <<>>)

\* ------------------------------------------------------ processRefereeLights
\* a.position.localeCompare(b.position) over the positions of the feeds
PositionRank(position) ==
    CASE position = "head" -> 1 [] position = "left" -> 2 [] OTHER -> 3

RECURSIVE LightsFrom(_, _, _)
LightsFrom(referees, i, acc) ==
    IF i > Len(referees) THEN acc
    ELSE LET r == referees[i]
             before == SelectSeq(acc, LAMBDA x :
                           PositionRank(x.position) <= PositionRank(r.position))
             after == SelectSeq(acc, LAMBDA x :
                           PositionRank(x.position) > PositionRank(r.position))
         IN  LightsFrom(referees, i + 1, before \o <<r>> \o after)

\* the lights in the order the referee documents arrived
MutLightsOf(platform, referees) ==
    LET mine == SelectSeq(referees, LAMBDA r : r.platformId = platform.id)
    IN  [i \in 1..Len(mine) |-> mine[i].decision = Str("good")]

LightsOf(platform, referees) ==
    LET mine == SelectSeq(referees, LAMBDA r : r.platformId = platform.id)
        sorted == LightsFrom(mine, 1, <<>>)
    IN  [i \in 1..Len(sorted) |-> sorted[i].decision = Str("good")]

processRefereeLights(platforms, referees) ==
    [i \in 1..Len(platforms) |->
        [platforms[i] EXCEPT !.lights = LightsOf(platforms[i], referees)]]

\* ------------------------------------------------------------ processLifters
NoPlace == 0
EmptySlots == [a |-> <<0, 0, 0>>, best |-> 0]

NewLifter(doc, federation, divisions) ==
    LET divisionId == doc.divisionId
        bodyweight == IF GreaterThanZero(doc.bodyWeight)
                      THEN OrZero(ParseFloat(doc.bodyWeight)) ELSE 0
    IN  [id |-> doc._id,
         name |-> doc.name,
         sex |-> doc.gender,
         weightClass |-> getWeightClass(federation, doc.gender, bodyweight),
         bodyweight |-> bodyweight,
         division |-> IF divisionId # NoId /\ Has(divisions, divisionId)
                      THEN Get(divisions, divisionId).name ELSE "",
         divisionId |-> divisionId,
         squat |-> EmptySlots,
         bench |-> EmptySlots,
         deadlift |-> EmptySlots,
         total |-> 0,
         place |-> NoPlace]

RECURSIVE LiftersFrom(_, _, _, _, _)
LiftersFrom(rows, federation, divisions, i, acc) ==
    IF i > Len(rows) THEN acc
    ELSE LET doc == rows[i]
         IN  IF /\ doc.hasDoc
                /\ StartsWith(doc._id, "l")
                /\ doc.name # ""
                /\ doc.birthDate # ""
                /\ doc.gender # ""
             THEN LiftersFrom(rows, federation, divisions, i + 1,
                              Put(acc, NewLifter(doc, federation, divisions)))
             ELSE LiftersFrom(rows, federation, divisions, i + 1, acc)

processLifters(rows, federation, divisions) ==
    LiftersFrom(rows, federation, divisions, 1, <<>>)

\* ----------------------------------------------------------- processAttempts
\* lifter[liftType]: the three disciplines are slot objects, name is a
\* non-empty string, no other lower-case name of the feed is a truthy property
LifterProp(liftType) ==
    CASE liftType \in {"squat", "bench", "deadlift"} -> "slots"
      [] liftType = "name" -> "primitive"
      [] OTHER -> "absent"

\* a pending attempt shows its declared weight
MutSlotValue(doc) ==
    LET weight == OrZero(ParseFloat(doc.weight))
        isSuccess == doc.result.t = "string" /\ ToLowerCase(doc.result.s) = "good"
    IN  IF isSuccess \/ doc.result.t \in {"null", "undefined"} THEN weight
        ELSE -Abs(weight)

\* the value written to the slot (the conditional of the assignment)
SlotValue(doc) ==
    LET weight == OrZero(ParseFloat(doc.weight))
        isSuccess == doc.result.t = "string" /\ ToLowerCase(doc.result.s) = "good"
    IN  IF isSuccess THEN weight
        ELSE IF doc.result.t \in {"null", "undefined"} THEN 0
        ELSE -Abs(weight)

\* the attempt document is one the forEach body records
IsAttemptDoc(doc) ==
    /\ doc._id # NoId
    /\ StartsWith(doc._id, "a")
    /\ doc.lifterId # NoId
    /\ Truthy(doc.liftName)
    /\ Truthy(doc.attemptNumber)

liftTypeOf(doc) ==
    LET lower == ToLowerCase(doc.liftName.s)
    IN  IF lower = "dead" THEN "deadlift" ELSE lower

attemptNumOf(doc) == ParseFloat(doc.attemptNumber)

\* the attempt is written to a slot of an existing lifter
Links(doc, lifters) ==
    /\ doc.hasDoc
    /\ IsAttemptDoc(doc)
    /\ Has(lifters, doc.lifterId)
    /\ doc.liftName.t = "string"
    /\ LifterProp(liftTypeOf(doc)) = "slots"
    /\ attemptNumOf(doc).t = "number"
    /\ attemptNumOf(doc).n >= 1
    /\ attemptNumOf(doc).n <= 3

\* a TypeError leaves the forEach: a row without doc (doc._id), a liftName or
\* a result that is no string (toLowerCase), a slot of a string (strict mode)
Throws(doc, lifters) ==
    \/ ~doc.hasDoc
    \/ /\ IsAttemptDoc(doc)
       /\ Has(lifters, doc.lifterId)
       /\ \/ doc.liftName.t # "string"
          \/ /\ LifterProp(liftTypeOf(doc)) # "absent"
             /\ attemptNumOf(doc).t = "number"
             /\ attemptNumOf(doc).n >= 1
             /\ attemptNumOf(doc).n <= 3
             /\ \/ doc.result.t \notin {"string", "null", "undefined"}
                \/ LifterProp(liftTypeOf(doc)) = "primitive"

SetSlot(lifter, liftType, n, v) ==
    CASE liftType = "squat" -> [lifter EXCEPT !.squat.a[n] = v]
      [] liftType = "bench" -> [lifter EXCEPT !.bench.a[n] = v]
      [] liftType = "deadlift" -> [lifter EXCEPT !.deadlift.a[n] = v]

AttemptRecord(doc) ==
    [id |-> doc._id, lifterId |-> doc.lifterId, liftName |-> doc.liftName,
     attemptNumber |-> doc.attemptNumber, weight |-> doc.weight,
     result |-> doc.result]

\* one turn of the forEach body on the pair (attempts, lifters)
AttemptStep(st, doc) ==
    LET recorded == IF doc.hasDoc /\ IsAttemptDoc(doc)
                    THEN Put(st.attempts, AttemptRecord(doc)) ELSE st.attempts
    IN  IF Throws(doc, st.lifters)
        THEN [attempts |-> recorded, lifters |-> st.lifters, threw |-> TRUE]
        ELSE IF Links(doc, st.lifters)
        THEN [attempts |-> recorded,
              lifters |-> [st.lifters EXCEPT ![IndexOf(st.lifters, doc.lifterId)] =
                              SetSlot(@, liftTypeOf(doc), attemptNumOf(doc).n,
                                      SlotValue(doc))],
              threw |-> FALSE]
        ELSE [attempts |-> recorded, lifters |-> st.lifters, threw |-> FALSE]

RECURSIVE AttemptsFrom(_, _, _)
AttemptsFrom(rows, i, st) ==
    IF i > Len(rows) \/ st.threw THEN st
    ELSE AttemptsFrom(rows, i + 1, AttemptStep(st, rows[i]))

\* [attempts: the returned map, lifters: the lifters as mutated, threw]
processAttempts(rows, lifters) ==
    AttemptsFrom(rows, 1, [attempts |-> <<>>, lifters |-> lifters, threw |-> FALSE])

\* -------------------------------------------------------- calculateBestLifts
Max(S) == CHOOSE m \in S : \A x \in S : x <= m

\* the last good attempt instead of the heaviest
MutBestOf(slots) ==
    LET attempts == SelectSeq(slots.a, LAMBDA w : w > 0)
    IN  IF Len(attempts) > 0 THEN attempts[Len(attempts)] ELSE 0

\* [1, 2, 3].filter(w > 0), then Math.max or 0
BestOf(slots) ==
    LET attempts == SelectSeq(slots.a, LAMBDA w : w > 0)
    IN  IF Len(attempts) > 0 THEN Max({attempts[i] : i \in 1..Len(attempts)}) ELSE 0

\* a discipline without a good lift zeroes the total
MutTotalOf(squat, bench, deadlift) ==
    IF squat = 0 \/ bench = 0 \/ deadlift = 0 THEN 0 ELSE squat + bench + deadlift

TotalOf(squat, bench, deadlift) == squat + bench + deadlift

\* total += instead of total =
MutScoreLifter(lifter) ==
    LET squat == BestOf(lifter.squat)
        bench == BestOf(lifter.bench)
        deadlift == BestOf(lifter.deadlift)
    IN  [lifter EXCEPT !.squat.best = squat,
                       !.bench.best = bench,
                       !.deadlift.best = deadlift,
                       !.total = @ + TotalOf(squat, bench, deadlift)]

ScoreLifter(lifter) ==
    LET squat == BestOf(lifter.squat)
        bench == BestOf(lifter.bench)
        deadlift == BestOf(lifter.deadlift)
    IN  [lifter EXCEPT !.squat.best = squat,
                       !.bench.best = bench,
                       !.deadlift.best = deadlift,
                       !.total = TotalOf(squat, bench, deadlift)]

\* a lifter without a best in every discipline is scored a total of 0
MutcalculateBestLifts(lifters) ==
    [i \in 1..Len(lifters) |->
        LET scored == ScoreLifter(lifters[i])
        IN  IF scored.squat.best = 0 \/ scored.bench.best = 0 \/ scored.deadlift.best = 0
            THEN [scored EXCEPT !.total = 0]
            ELSE scored]

calculateBestLifts(lifters) ==
    [i \in 1..Len(lifters) |-> ScoreLifter(lifters[i])]

\* --------------------------------------------------------- calculatePlacings
\* `${divisionId}_${sex}_${weightClass}`: a null divisionId prints as "null"
GroupKey(lifter) ==
    <<IF lifter.divisionId = NoId THEN <<"n", "ull">> ELSE lifter.divisionId,
      lifter.sex, lifter.weightClass>>

\* ties go to the heavier lifter
MutCompare(a, b) ==
    IF b.total # a.total THEN b.total - a.total
    ELSE b.bodyweight - a.bodyweight

\* the comparator of group.sort: negative when a sorts before b
Compare(a, b) ==
    IF b.total # a.total THEN b.total - a.total
    ELSE a.bodyweight - b.bodyweight

\* x goes behind every element that does not sort after it (a stable sort)
InsertSorted(sorted, x) ==
    LET behind == {i \in 1..Len(sorted) : Compare(sorted[i], x) <= 0}
        k == IF behind = {} THEN 0 ELSE Max(behind)
    IN  SubSeq(sorted, 1, k) \o <<x>> \o SubSeq(sorted, k + 1, Len(sorted))

RECURSIVE SortFrom(_, _, _)
SortFrom(group, i, sorted) ==
    IF i > Len(group) THEN sorted
    ELSE SortFrom(group, i + 1, InsertSorted(sorted, group[i]))

\* the group keeps the order of Object.values(lifters)
MutSortGroup(group) == group

SortGroup(group) == SortFrom(group, 1, <<>>)

\* every sorted lifter gets its index as place
MutPlaceOf(lifter, index) == index + 1

PlaceOf(lifter, index) == IF lifter.total > 0 THEN index + 1 ELSE NoPlace

\* a lifter without a best in every discipline is left without a place
MutcalculatePlacings(lifters) ==
    [i \in 1..Len(lifters) |->
        LET lifter == lifters[i]
            group == SelectSeq(lifters, LAMBDA x : GroupKey(x) = GroupKey(lifter))
            sortedGroup == SortGroup(group)
        IN  [lifter EXCEPT !.place =
                IF lifter.squat.best > 0 /\ lifter.bench.best > 0 /\ lifter.deadlift.best > 0
                THEN PlaceOf(lifter, IndexOf(sortedGroup, lifter.id) - 1)
                ELSE NoPlace]]

calculatePlacings(lifters) ==
    [i \in 1..Len(lifters) |->
        LET lifter == lifters[i]
            group == SelectSeq(lifters, LAMBDA x : GroupKey(x) = GroupKey(lifter))
            sortedGroup == SortGroup(group)
        IN  [lifter EXCEPT !.place = PlaceOf(lifter, IndexOf(sortedGroup, lifter.id) - 1)]]

\* ------------------------------------------------------------ the documents
DivisionDoc == [Row(<<"d", "1">>) EXCEPT !.name = "Open"]

LifterName(k) == CASE k = "1" -> "Ann" [] k = "2" -> "Bob" [] OTHER -> "Cy"

LifterDoc(k, divisionId, gender, bodyWeight) ==
    [Row(<<"l", k>>) EXCEPT !.name = LifterName(k), !.birthDate = "1990-01-01",
                            !.gender = gender, !.bodyWeight = bodyWeight,
                            !.divisionId = divisionId]

AttemptDoc(k, lifterKey, liftName, attemptNumber, weight, result) ==
    [Row(<<"a", k>>) EXCEPT !.lifterId = <<"l", lifterKey>>, !.liftName = liftName,
                            !.attemptNumber = attemptNumber, !.weight = weight,
                            !.result = result]

MeetDoc == [Row(<<"m", "1">>) EXCEPT !.name = "Nationals"]

PlatformDoc == [Row(<<"p", "1">>) EXCEPT !.name = "Platform 1", !.clockState = Null]

RefereeDoc(k, position, decision) ==
    [Row(<<"r", k>>) EXCEPT !.platformId = <<"p", "1">>, !.position = position,
                            !.decision = decision]

Weights == 0..MaxWeight
Bodyweights == 0..MaxBody
Outcomes == {Str("good"), Str("bad"), Null}

\* one lifter, every outcome and weight in the three squat slots, one bench
\* and one deadlift attempt
SlotFeeds ==
    {<<LifterDoc("1", <<"d", "1">>, "MALE", Num(2)),
       AttemptDoc("1", "1", Str("squat"), Str("1"), Num(w[1]), r[1]),
       AttemptDoc("2", "1", Str("squat"), Str("2"), Num(w[2]), r[2]),
       AttemptDoc("3", "1", Str("squat"), Str("3"), Num(w[3]), r[3]),
       AttemptDoc("4", "1", Str("bench"), Str("1"), Num(b), Str("good")),
       AttemptDoc("5", "1", Str("dead"), Str("3"), Num(d), Str("good"))>> :
        w \in [1..3 -> Weights], r \in [1..3 -> Outcomes], b \in {0, 1}, d \in {1}}

\* three lifters over the groups, the bodyweights and the totals
GroupFeeds ==
    {<<DivisionDoc,
       LifterDoc("1", g[1], s[1], Num(bw[1])),
       LifterDoc("2", g[2], s[2], Num(bw[2])),
       LifterDoc("3", <<"d", "1">>, "MALE", Num(2)),
       AttemptDoc("1", "1", Str("squat"), Str("1"), Num(w[1]), Str("good")),
       AttemptDoc("2", "2", Str("squat"), Str("1"), Num(w[2]), Str("good")),
       AttemptDoc("3", "3", Str("squat"), Str("1"), Num(w[3]), Str("good"))>> :
        g \in [1..2 -> {<<"d", "1">>, NoId}],
        s \in {<<"MALE", "MALE">>, <<"FEMALE", "MALE">>},
        bw \in [1..2 -> Bodyweights],
        w \in {x \in [1..3 -> Weights] : x[3] = 1}}

\* one attempt of any shape, before or after a good first squat
LinkFeeds ==
    LET fixed == AttemptDoc("2", "1", Str("squat"), Str("1"), Num(1), Str("good"))
        lifter == LifterDoc("1", NoId, "FEMALE", Str("2"))
        any == {AttemptDoc("1", k, ln, an, w, r) :
                  k \in {"1", "9"},
                  ln \in {Str("squat"), Str("Dead"), Str("press"), Str("name"), Num(1)},
                  an \in {Num(1), Str("3"), Num(4), Str("x")},
                  w \in {Num(MaxWeight), Num(-1), Str("1"), Str("2kg"), Str("abc"), Undef},
                  r \in {Str("good"), Str("GOOD"), Str("bad"), Str(""), Null, Undef, Num(1)}}
    IN  {<<lifter, a, fixed>> : a \in any} \cup {<<lifter, fixed, a>> : a \in any}

Feeds == SlotFeeds \cup GroupFeeds \cup LinkFeeds

\* -------------------------------------------------------------------- state
VARIABLES
    rows,        \* the rows of one fetched feed
    fed,         \* the federation the feed is projected under
    divisions,   \* processDivisions(rows)
    lifters,     \* the lifters object of the pass
    attempts,    \* the attempts object of the pass
    pc,          \* how far the pass has come
    meetData,          \* the snapshot
    connectedClients,  \* the array of open sockets
    wsState,           \* per socket: "new", "open" or "closed"
    inflight,          \* per meet id: calls of fetchData that have not returned
    started,           \* calls of fetchData so far
    received,          \* per socket: the messages ws.send handed over, in order
    published,         \* the update messages built by broadcastUpdate, in order
    lastEvent          \* what the last handler did

passVars == <<rows, fed, divisions, lifters, attempts, pc>>
serverVars == <<meetData, connectedClients, wsState, inflight, started, received,
                published, lastEvent>>
vars == <<passVars, serverVars>>

Clients == 1..MaxClients
MeetIds == {"A", "B"}
NoFederation == ""
NoUpdate == 0

\* meetInfo: null
NoMeetInfo == [name |-> "null", units |-> ""]

\* let meetData = {...}: the empty default snapshot
DefaultMeetData ==
    [lifters |-> <<>>, attempts |-> <<>>, divisions |-> <<>>,
     platforms |-> <<>>, referees |-> <<>>, meetInfo |-> NoMeetInfo,
     federation |-> NoFederation, meetId |-> "", lastUpdate |-> NoUpdate]

NoEvent == [kind |-> "none", ws |-> 0, failed |-> {}, why |-> "", outcome |-> ""]

ServerInit ==
    /\ meetData = DefaultMeetData
    /\ connectedClients = <<>>
    /\ wsState = [c \in Clients |-> "new"]
    /\ inflight = [m \in MeetIds |-> 0]
    /\ started = 0
    /\ received = [c \in Clients |-> <<>>]
    /\ published = <<>>
    /\ lastEvent = NoEvent

\* ------------------------------------------------- the scoring pass, stepwise
PassInit ==
    /\ ServerInit
    /\ rows \in Feeds
    /\ fed = "IPF"
    /\ divisions = <<>>
    /\ lifters = <<>>
    /\ attempts = <<>>
    /\ pc = "fetched"

Project ==
    /\ pc = "fetched"
    /\ divisions' = processDivisions(rows)
    /\ lifters' = processLifters(rows, fed, processDivisions(rows))
    /\ pc' = "projected"
    /\ UNCHANGED <<rows, fed, attempts>>
    /\ UNCHANGED serverVars

Link ==
    /\ pc = "projected"
    /\ LET r == processAttempts(rows, lifters)
       IN  /\ lifters' = r.lifters
           /\ attempts' = r.attempts
           /\ pc' = IF r.threw THEN "threw" ELSE "linked"
    /\ UNCHANGED <<rows, fed, divisions>>
    /\ UNCHANGED serverVars

Best ==
    /\ pc = "linked"
    /\ lifters' = calculateBestLifts(lifters)
    /\ pc' = "best"
    /\ UNCHANGED <<rows, fed, divisions, attempts>>
    /\ UNCHANGED serverVars

Place ==
    /\ pc = "best"
    /\ lifters' = calculatePlacings(lifters)
    /\ pc' = "placed"
    /\ UNCHANGED <<rows, fed, divisions, attempts>>
    /\ UNCHANGED serverVars

\* both passes again on the scored lifters
Rescore ==
    /\ pc = "placed"
    /\ lifters' = calculatePlacings(calculateBestLifts(lifters))
    /\ pc' = "rescored"
    /\ UNCHANGED <<rows, fed, divisions, attempts>>
    /\ UNCHANGED serverVars

PassNext == Project \/ Link \/ Best \/ Place \/ Rescore

SpecPass == PassInit /\ [][PassNext]_vars


\* ------------------------------------- platforms, clocks and referee lights
PlatformWith(k, clockState, clockTimerLength) ==
    [Row(<<"p", k>>) EXCEPT !.name = "Platform", !.clockState = clockState,
                            !.clockTimerLength = clockTimerLength]

RefereeOn(k, platformId, position, decision) ==
    [Row(<<"r", k>>) EXCEPT !.platformId = platformId, !.position = position,
                            !.decision = decision]

Positions == {"head", "left", "right", ""}
Decisions == {Str("good"), Str("bad"), Null}
PlatformIds == {<<"p", "1">>, <<"p", "2">>}

\* two platforms and up to two referees of any platform, position and decision
RefereeFeeds ==
    LET platforms == <<PlatformWith("1", Null, Undef), PlatformWith("2", Null, Undef)>>
        one == {RefereeOn("1", p, x, d) : p \in PlatformIds, x \in Positions, d \in Decisions}
        two == {RefereeOn("2", p, x, d) : p \in PlatformIds, x \in Positions, d \in Decisions}
    IN  {platforms} \cup {Append(platforms, r) : r \in one}
            \cup {platforms \o <<r, q>> : r \in one, q \in two}

\* four referees on one platform, two of them at the same position
CrowdFeeds ==
    {<<PlatformWith("1", Null, Undef),
       RefereeOn("1", <<"p", "1">>, "right", d[1]),
       RefereeOn("2", <<"p", "1">>, "left", d[2]),
       RefereeOn("3", <<"p", "1">>, "head", d[3]),
       RefereeOn("4", <<"p", "1">>, "left", d[4])>> : d \in [1..4 -> {Str("good"), Str("bad")}]}

\* one platform over the clock states and timer lengths a document may carry
ClockFeeds ==
    {<<PlatformWith("1", cs, len)>> :
        cs \in {Undef, Null, Str("stopped")}
                 \cup {ClockState(r) : r \in {Undef, Num(0), Num(2 * MsPerSecond)}},
        len \in {Undef, Num(0), Num(3 * MsPerSecond)}}

LiveFeeds == RefereeFeeds \cup CrowdFeeds \cup ClockFeeds

LiveInit ==
    /\ ServerInit
    /\ rows \in LiveFeeds
    /\ fed = "IPF"
    /\ divisions = <<>>
    /\ lifters = <<>>
    /\ attempts = <<>>
    /\ pc = "live"

\* meetData.platforms = processPlatforms(rows); meetData.referees = processReferees(rows)
Stage ==
    /\ pc = "live"
    /\ meetData' = [meetData EXCEPT !.platforms = processPlatforms(rows),
                                    !.referees = processReferees(rows)]
    /\ pc' = "staged"
    /\ UNCHANGED <<rows, fed, divisions, lifters, attempts>>
    /\ UNCHANGED <<connectedClients, wsState, inflight, started, received, published,
                   lastEvent>>

\* processRefereeLights(meetData.platforms, meetData.referees)
Light ==
    /\ pc = "staged"
    /\ meetData' = [meetData EXCEPT
                       !.platforms = processRefereeLights(meetData.platforms,
                                                          meetData.referees)]
    /\ pc' = "lit"
    /\ UNCHANGED <<rows, fed, divisions, lifters, attempts>>
    /\ UNCHANGED <<connectedClients, wsState, inflight, started, received, published,
                   lastEvent>>

LiveNext == Stage \/ Light

SpecLive == LiveInit /\ [][LiveNext]_vars

\* ------------------------------------------------- weight classes, stepwise
\* a call getWeightClass(sex, bodyweight) of mapWeightClasses(fed): the
\* arguments are the gender and bodyWeight of rows[1]
Sexes == {"MALE", "FEMALE", "male", "female", "X", ""}
Federations == {"IPF", "APA", "XYZ", NoFederation}

ClassInit ==
    /\ ServerInit
    /\ rows \in {<<[Row(NoId) EXCEPT !.gender = s, !.bodyWeight = Num(b)]>> :
                    s \in Sexes, b \in 0..MaxClassBody}
    /\ fed \in Federations
    /\ divisions = <<>>
    /\ lifters = <<>>
    /\ attempts = <<>>
    /\ pc = "asked"

Resolve ==
    /\ pc = "asked"
    /\ lifters' = <<[sex |-> rows[1].gender,
                     bodyweight |-> rows[1].bodyWeight.n,
                     weightClass |-> getWeightClass(fed, rows[1].gender,
                                                    rows[1].bodyWeight.n)]>>
    /\ pc' = "resolved"
    /\ UNCHANGED <<rows, fed, divisions, attempts>>
    /\ UNCHANGED serverVars

SpecClass == ClassInit /\ [][Resolve]_vars

\* ------------------------------------------------------------- the upstream
\* what the document store may hold for a meet
FeedA1 ==
    <<DivisionDoc,
      LifterDoc("1", <<"d", "1">>, "MALE", Num(2)),
      LifterDoc("2", <<"d", "1">>, "MALE", Num(1)),
      AttemptDoc("1", "1", Str("squat"), Str("1"), Num(2), Str("good")),
      AttemptDoc("2", "2", Str("squat"), Str("1"), Num(2), Null),
      MeetDoc, PlatformDoc,
      RefereeDoc("2", "left", Str("good")), RefereeDoc("1", "head", Str("bad"))>>

FeedA2 == [FeedA1 EXCEPT ![5].result = Str("good")]

FeedB1 ==
    <<LifterDoc("3", NoId, "FEMALE", Num(3)),
      AttemptDoc("3", "3", Str("bench"), Str("1"), Num(1), Str("good"))>>

FeedB2 == Append(FeedB1, NoDocRow)

UpstreamFeeds(meetId) == IF meetId = "A" THEN {FeedA1, FeedA2} ELSE {FeedB1, FeedB2}

\* how fetch and response.json() may end for a meet
Responses(meetId) ==
    {[kind |-> k, rows |-> <<>>] : k \in {"network", "status", "json", "norows"}}
        \cup {[kind |-> "ok", rows |-> r] : r \in UpstreamFeeds(meetId)}

\* fetchData: the parsed body, or null after an error is caught
fetchData(resp) ==
    IF resp.kind \in {"network", "status", "json"}
    THEN [isNull |-> TRUE, hasRows |-> FALSE, rows |-> <<>>]
    ELSE [isNull |-> FALSE, hasRows |-> resp.kind = "ok", rows |-> resp.rows]

\* ------------------------------------------------------------- the messages
\* JSON.stringify leaves a property out when its value is undefined
JsonValue(v) == IF v.t = "undefined" THEN [t |-> "absent", n |-> 0, s |-> ""] ELSE v

JsonAttempt(a) ==
    [a EXCEPT !.liftName = JsonValue(@), !.attemptNumber = JsonValue(@),
              !.weight = JsonValue(@), !.result = JsonValue(@)]

\* the initial message is built from the empty default snapshot
MutInitialMessage(md) ==
    [type |-> "initial",
     data |-> [lifters |-> <<>>,
               lastUpdate |-> NoUpdate,
               federation |-> md.federation,
               federations |-> FederationCodes]]

InitialMessage(md) ==
    [type |-> "initial",
     data |-> [lifters |-> md.lifters,
               lastUpdate |-> md.lastUpdate,
               federation |-> md.federation,
               federations |-> FederationCodes]]

\* the update message as the README lists it: lifters, lastUpdate, federation
MutUpdateMessage(md) ==
    [type |-> "update",
     data |-> [lifters |-> md.lifters,
               federation |-> md.federation,
               lastUpdate |-> md.lastUpdate]]

UpdateMessage(md) ==
    [type |-> "update",
     data |-> [lifters |-> md.lifters,
               attempts |-> [i \in 1..Len(md.attempts) |-> JsonAttempt(md.attempts[i])],
               divisions |-> md.divisions,
               platforms |-> md.platforms,
               referees |-> md.referees,
               meetInfo |-> md.meetInfo,
               federation |-> md.federation,
               lastUpdate |-> md.lastUpdate]]

ClientSet == {connectedClients[i] : i \in 1..Len(connectedClients)}

\* the message is put in front of what the socket has been sent
MutDeliver(to, message) ==
    [c \in Clients |-> IF c \in to THEN <<message>> \o received[c] ELSE received[c]]

\* ws.send(message) returns for the sockets of `to`
Deliver(to, message) ==
    [c \in Clients |-> IF c \in to THEN Append(received[c], message) ELSE received[c]]

\* ------------------------------------------------------------ the handlers
Event(kind, ws, failed, why, outcome) ==
    [kind |-> kind, ws |-> ws, failed |-> failed, why |-> why, outcome |-> outcome]

\* the open handler sends the initial message to every connected socket
MutOpen(c) ==
    /\ wsState[c] = "new"
    /\ wsState' = [wsState EXCEPT ![c] = "open"]
    /\ connectedClients' = Append(connectedClients, c)
    /\ \E ok \in BOOLEAN :
          /\ received' = IF ok THEN Deliver(ClientSet \cup {c}, InitialMessage(meetData))
                         ELSE received
          /\ lastEvent' = Event("open", c, IF ok THEN {} ELSE {c}, "", "")
    /\ UNCHANGED <<meetData, inflight, started, published>>
    /\ UNCHANGED passVars

\* open: push, then send the initial message inside try / catch
Open(c) ==
    /\ wsState[c] = "new"
    /\ wsState' = [wsState EXCEPT ![c] = "open"]
    /\ connectedClients' = Append(connectedClients, c)
    /\ \E ok \in BOOLEAN :
          /\ received' = IF ok THEN Deliver({c}, InitialMessage(meetData)) ELSE received
          /\ lastEvent' = Event("open", c, IF ok THEN {} ELSE {c}, "", "")
    /\ UNCHANGED <<meetData, inflight, started, published>>
    /\ UNCHANGED passVars

\* splice(indexOf(ws), 1): for a socket that is not in the array the last
\* element goes
MutLeave(clients, ws) ==
    IF \E i \in 1..Len(clients) : clients[i] = ws
    THEN SelectSeq(clients, LAMBDA client : client # ws)
    ELSE SubSeq(clients, 1, Len(clients) - 1)

\* connectedClients.filter((client) => client !== ws)
Leave(clients, ws) == SelectSeq(clients, LAMBDA client : client # ws)

\* close: connectedClients.filter(client !== ws); the log of a closed socket
\* is dropped
Close(c) ==
    /\ wsState[c] = "open"
    /\ wsState' = [wsState EXCEPT ![c] = "closed"]
    /\ connectedClients' = Leave(connectedClients, c)
    /\ received' = [received EXCEPT ![c] = <<>>]
    /\ lastEvent' = Event("close", c, {}, "", "")
    /\ UNCHANGED <<meetData, inflight, started, published>>
    /\ UNCHANGED passVars

\* updateMeetData without its guard: an unset meet id is fetched as meet A
MutStartFetch(meetId) ==
    /\ inflight' = [inflight EXCEPT ![IF meetId = "" THEN "A" ELSE meetId] = @ + 1]
    /\ started' = started + 1

\* updateMeetData up to its await: no meet id returns, else fetchData is called
StartFetch(meetId) ==
    IF meetId = "" THEN UNCHANGED <<inflight, started>>
    ELSE /\ inflight' = [inflight EXCEPT ![meetId] = @ + 1]
         /\ started' = started + 1

\* the message handler without its call of updateMeetData: the fetch waits
\* for the next tick
MutConfigure(meetId, federation) ==
    /\ \E c \in Clients : wsState[c] = "open"
    /\ started < MaxCycles
    /\ meetData' = [meetData EXCEPT !.meetId = meetId,
                                    !.federation = IF federation = "" THEN "IPF"
                                                   ELSE federation]
    /\ lastEvent' = Event("configure", 0, {}, "", "")
    /\ UNCHANGED <<connectedClients, wsState, received, published, inflight, started>>
    /\ UNCHANGED passVars

\* message: a configure message of an open socket sets meetId and federation
\* and calls updateMeetData
Configure(meetId, federation) ==
    /\ \E c \in Clients : wsState[c] = "open"
    /\ started < MaxCycles
    /\ meetData' = [meetData EXCEPT !.meetId = meetId,
                                    !.federation = IF federation = "" THEN "IPF"
                                                   ELSE federation]
    /\ StartFetch(meetId)
    /\ lastEvent' = Event("configure", 0, {}, "", "")
    /\ UNCHANGED <<connectedClients, wsState, received, published>>
    /\ UNCHANGED passVars

\* setInterval: if (meetData.meetId) updateMeetData()
Tick ==
    /\ started < MaxCycles
    /\ StartFetch(meetData.meetId)
    /\ lastEvent' = Event("tick", 0, {}, "", "")
    /\ UNCHANGED <<meetData, connectedClients, wsState, received, published>>
    /\ UNCHANGED passVars

\* new Date().toISOString(): later than the last stamp, or the same millisecond
Stamps(md) ==
    IF md.lastUpdate = NoUpdate THEN {1} ELSE {md.lastUpdate, md.lastUpdate + 1}

\* the processing without line 410: lastUpdate keeps its value
MutProcessData(md, data, stamp) ==
    LET linked == processAttempts(data, processLifters(data, md.federation,
                                                       processDivisions(data)))
    IN  [outcome |-> IF linked.threw THEN "threw" ELSE "done",
         md |-> [md EXCEPT !.divisions = processDivisions(data),
                           !.lifters = calculatePlacings(
                                           calculateBestLifts(linked.lifters)),
                           !.attempts = linked.attempts]]

\* the attempts of the cycle are added to the attempts map of the snapshot
MutProcessDataCarry(md, data, stamp) ==
    LET newDivisions == processDivisions(data)
        linked == processAttempts(data, processLifters(data, md.federation, newDivisions))
        carried == AttemptsFrom(SelectSeq(data, LAMBDA row : row.hasDoc), 1,
                                [attempts |-> md.attempts, lifters |-> <<>>,
                                 threw |-> FALSE]).attempts
    IN  [outcome |-> IF linked.threw THEN "threw" ELSE "done",
         md |-> [md EXCEPT !.divisions = newDivisions,
                           !.meetInfo = processMeetInfo(data),
                           !.platforms = processRefereeLights(processPlatforms(data),
                                                              processReferees(data)),
                           !.referees = processReferees(data),
                           !.lifters = calculatePlacings(
                                           calculateBestLifts(linked.lifters)),
                           !.attempts = carried,
                           !.lastUpdate = stamp]]

\* updateMeetData from "Process data" to the stamp; a TypeError of
\* processAttempts leaves the assignments made before it
ProcessData(md, data, stamp) ==
    LET newDivisions == processDivisions(data)
        newPlatforms == processPlatforms(data)
        newReferees == processReferees(data)
        newLifters == processLifters(data, md.federation, newDivisions)
        linked == processAttempts(data, newLifters)
        assigned == [md EXCEPT !.divisions = newDivisions,
                               !.meetInfo = processMeetInfo(data),
                               !.platforms = newPlatforms,
                               !.referees = newReferees,
                               !.lifters = linked.lifters]
    IN  IF linked.threw
        THEN [outcome |-> "threw", md |-> assigned]
        ELSE [outcome |-> "done",
              md |-> [assigned EXCEPT
                         !.lifters = calculatePlacings(calculateBestLifts(linked.lifters)),
                         !.attempts = linked.attempts,
                         !.platforms = processRefereeLights(newPlatforms, newReferees),
                         !.lastUpdate = stamp]]

\* null data and data without rows are taken for rows: []
MutupdateMeetData(md, data, stamp) == ProcessData(md, data.rows, stamp)

\* updateMeetData after the await, up to the broadcast
updateMeetData(md, data, stamp) ==
    IF data.isNull \/ ~data.hasRows THEN [outcome |-> "nodata", md |-> md]
    ELSE ProcessData(md, data.rows, stamp)

\* the first socket that throws ends the forEach
MutbroadcastUpdate(md, failed) ==
    LET firstFailed == IF failed = {} THEN Len(connectedClients) + 1
                       ELSE CHOOSE i \in 1..Len(connectedClients) :
                               /\ connectedClients[i] \in failed
                               /\ \A j \in 1..(i - 1) : connectedClients[j] \notin failed
    IN  /\ received' = Deliver({connectedClients[i] : i \in 1..(firstFailed - 1)},
                               UpdateMessage(md))
        /\ published' = Append(published, UpdateMessage(md))
        /\ connectedClients' = connectedClients

\* broadcastUpdate: one message, sent to each connected socket inside
\* try / catch; the sockets of `failed` throw
broadcastUpdate(md, failed) ==
    /\ received' = Deliver(ClientSet \ failed, UpdateMessage(md))
    /\ published' = Append(published, UpdateMessage(md))
    /\ connectedClients' = connectedClients

\* updateMeetData after the await: fetchData has returned for a call made
\* with meetId
FetchReturn(meetId, resp) ==
    /\ inflight[meetId] > 0
    /\ inflight' = [inflight EXCEPT ![meetId] = @ - 1]
    /\ \E stamp \in Stamps(meetData) :
          LET done == updateMeetData(meetData, fetchData(resp), stamp)
          IN  /\ meetData' = done.md
              /\ IF done.outcome = "done"
                 THEN \E failed \in SUBSET ClientSet :
                         /\ broadcastUpdate(done.md, failed)
                         /\ lastEvent' = Event("return", 0, failed, resp.kind, "done")
                 ELSE /\ lastEvent' = Event("return", 0, {}, resp.kind, done.outcome)
                      /\ UNCHANGED <<connectedClients, received, published>>
    /\ UNCHANGED <<wsState, started>>
    /\ UNCHANGED passVars

Init ==
    /\ ServerInit
    /\ rows = <<>>
    /\ fed = NoFederation
    /\ divisions = <<>>
    /\ lifters = <<>>
    /\ attempts = <<>>
    /\ pc = "off"

Next ==
    \/ \E c \in Clients : Open(c)
    \/ \E c \in Clients : Close(c)
    \/ \E m \in MeetIds \cup {""} : \E f \in {"APA", ""} : Configure(m, f)
    \/ Tick
    \/ \E m \in MeetIds : \E resp \in Responses(m) : FetchReturn(m, resp)

Spec == Init /\ [][Next]_vars

\* ------------------------------------------------------------------- claims
Lifts == {"squat", "bench", "deadlift"}

SlotsOf(lifter, lift) ==
    CASE lift = "squat" -> lifter.squat
      [] lift = "bench" -> lifter.bench
      [] lift = "deadlift" -> lifter.deadlift

LifterSet == {lifters[i] : i \in 1..Len(lifters)}
AfterBest == pc \in {"best", "placed", "rescored"}
AfterPlace == pc \in {"placed", "rescored"}

\* C1: after calculateBestLifts every lifter's total is the sum of its three
\* best values.
C1_TotalIsSumOfBest ==
    AfterBest =>
        \A l \in LifterSet : l.total = l.squat.best + l.bench.best + l.deadlift.best

C1_Witness ==
    /\ pc = "best"
    /\ \E l \in LifterSet :
          /\ l.squat.best > 0
          /\ l.bench.best > 0
          /\ l.deadlift.best > 0
          /\ l.total > l.squat.best

\* C2: after calculateBestLifts and calculatePlacings a lifter has a place
\* exactly when its total is positive.
C2_PlaceIffPositiveTotal ==
    AfterPlace => \A l \in LifterSet : (l.place # NoPlace) <=> (l.total > 0)

C2_Witness ==
    /\ pc = "placed"
    /\ \E l, m \in LifterSet :
          /\ GroupKey(l) = GroupKey(m)
          /\ l.total = 0 /\ l.place = NoPlace
          /\ m.total > 0 /\ m.place = 1

\* C3: after calculateBestLifts the best of every discipline is the largest
\* strictly positive value among slots 1..3, and 0 when no slot is positive.
C3_BestIsMaxPositive ==
    AfterBest =>
        \A l \in LifterSet : \A lift \in Lifts :
            LET slots == SlotsOf(l, lift)
                positive == {i \in 1..3 : slots.a[i] > 0}
            IN  IF positive = {} THEN slots.best = 0
                ELSE /\ \E i \in positive : slots.best = slots.a[i]
                     /\ \A i \in positive : slots.a[i] <= slots.best

C3_Witness ==
    /\ pc = "best"
    /\ \E l \in LifterSet :
          /\ l.squat.a[1] > l.squat.a[3]
          /\ l.squat.a[3] > 0
          /\ l.squat.a[2] < 0
          /\ l.squat.best = l.squat.a[1]
          /\ l.bench.best = 0

SameGroup(l, m) ==
    /\ l.divisionId = m.divisionId
    /\ l.sex = m.sex
    /\ l.weightClass = m.weightClass

PlacedAlone(l) ==
    LET group == SelectSeq(lifters, LAMBDA x : SameGroup(x, l))
        alone == calculatePlacings(group)
    IN  Get(alone, l.id).place

\* C4: after calculatePlacings, of two placed lifters of one (divisionId, sex,
\* weightClass) group the one with the larger total has the smaller place, at
\* equal totals the lighter one has the smaller place, and a lifter's place
\* is the one it gets when the lifters of all other groups are taken away.
C4_PlacingOrder ==
    AfterPlace =>
        /\ \A l, m \in LifterSet :
              (SameGroup(l, m) /\ l.place # NoPlace /\ m.place # NoPlace) =>
                  /\ l.total > m.total => l.place < m.place
                  /\ (l.total = m.total /\ l.bodyweight < m.bodyweight) =>
                        l.place < m.place
        /\ \A l \in LifterSet : l.place = PlacedAlone(l)

C4_Witness ==
    /\ pc = "placed"
    /\ \E l, m, o \in LifterSet :
          /\ SameGroup(l, m) /\ ~SameGroup(l, o)
          /\ l.total = m.total /\ l.bodyweight < m.bodyweight
          /\ l.place = 1 /\ m.place = 2 /\ o.place = 1
          /\ o.total < l.total

\* C5: running calculateBestLifts and calculatePlacings again on the scored
\* lifters leaves every best, total and place as the first run set it.
C5_RescoreChangesNothing ==
    [][(pc = "placed" /\ pc' = "rescored") => lifters' = lifters]_vars

C5_Witness ==
    /\ pc = "rescored"
    /\ \E l, m \in LifterSet :
          /\ l.id # m.id
          /\ SameGroup(l, m)
          /\ l.total = m.total /\ l.bodyweight = m.bodyweight
          /\ l.place = 1 /\ m.place = 2
    /\ \E l \in LifterSet : l.total = 0 /\ l.place = NoPlace

\* the document at index i is the last one the pass writes to its slot
LastWriter(i) ==
    /\ Links(rows[i], lifters)
    /\ \A j \in (i + 1)..Len(rows) :
          ~ /\ Links(rows[j], lifters)
            /\ rows[j].lifterId = rows[i].lifterId
            /\ liftTypeOf(rows[j]) = liftTypeOf(rows[i])
            /\ attemptNumOf(rows[j]).n = attemptNumOf(rows[i]).n

SlotOf(doc) ==
    SlotsOf(Get(lifters, doc.lifterId), liftTypeOf(doc)).a[attemptNumOf(doc).n]

IsResult(doc, word) == doc.result.t = "string" /\ ToLowerCase(doc.result.s) = word
IsUnset(doc) == doc.result.t \in {"null", "undefined"}
HasNumericWeight(doc) == ParseFloat(doc.weight).t = "number"

\* C6: the slot an attempt is linked to holds the declared weight when the
\* result is good, minus its absolute value when the result is bad, and 0
\* when the result is unset, whatever the declared weight.
C6_SlotEncoding ==
    pc \in {"linked", "best", "placed", "rescored"} =>
        \A i \in 1..Len(rows) :
            LastWriter(i) =>
                LET doc == rows[i]
                    declared == ParseFloat(doc.weight).n
                IN  /\ (IsResult(doc, "good") /\ HasNumericWeight(doc)) =>
                          SlotOf(doc) = declared
                    /\ (IsResult(doc, "bad") /\ HasNumericWeight(doc)) =>
                          SlotOf(doc) = -Abs(declared)
                    /\ IsUnset(doc) => SlotOf(doc) = 0

C6_Witness ==
    /\ pc = "linked"
    /\ \E i, j, k \in 1..Len(rows) :
          /\ LastWriter(i) /\ LastWriter(j) /\ LastWriter(k)
          /\ IsResult(rows[i], "good") /\ rows[i].weight = Num(MaxWeight)
          /\ SlotOf(rows[i]) = MaxWeight
          /\ IsResult(rows[j], "bad") /\ rows[j].weight = Num(MaxWeight)
          /\ SlotOf(rows[j]) = -MaxWeight
          /\ IsUnset(rows[k]) /\ rows[k].weight = Num(MaxWeight)
          /\ SlotOf(rows[k]) = 0

Last(seq) == seq[Len(seq)]
Joined == lastEvent.kind = "open"
Published == lastEvent.kind = "return" /\ lastEvent.outcome = "done"
FetchFailed == lastEvent.kind = "return" /\ lastEvent.why \in {"network", "status", "json"}
InFlight == \E m \in MeetIds : inflight[m] > 0

\* a field of a message's data, or the empty default when the data has no
\* such field
Field(data, name, default) == IF name \in DOMAIN data THEN data[name] ELSE default

C8_SendFailureIsolated ==
    [][(lastEvent'.kind = "return" /\ lastEvent'.outcome = "done") =>
          /\ connectedClients' = connectedClients
          /\ lastEvent'.failed \subseteq ClientSet
          /\ \A c \in ClientSet \ lastEvent'.failed :
                received'[c] = Append(received[c], Last(published'))
          /\ \A c \in lastEvent'.failed : received'[c] = received[c]]_vars

C8_Witness ==
    /\ Published
    /\ Len(connectedClients) = 2
    /\ lastEvent.failed = {connectedClients[1]}
    /\ Last(received[connectedClients[2]]) = Last(published)
    /\ Last(published).type = "update"
    /\ Len(Last(published).data.lifters) > 0

\* C9: a cycle whose fetch fails (network error, non-success status,
\* malformed JSON) leaves meetData, last-update stamp included, as it was,
\* hands no message to any viewer and builds no update; a tick that follows
\* calls fetchData again for the configured meet.
C9_FailedFetchKeepsSnapshot ==
    [][/\ (lastEvent'.kind = "return"
             /\ lastEvent'.why \in {"network", "status", "json"}) =>
             /\ meetData' = meetData
             /\ received' = received
             /\ published' = published
             /\ lastEvent'.outcome = "nodata"
       /\ (FetchFailed /\ lastEvent'.kind = "tick" /\ meetData.meetId # "") =>
             /\ inflight'[meetData.meetId] = inflight[meetData.meetId] + 1
             /\ meetData' = meetData]_vars

C9_Witness ==
    /\ FetchFailed
    /\ lastEvent.why = "status"
    /\ meetData.lastUpdate # NoUpdate
    /\ Len(meetData.lifters) > 0
    /\ published # <<>>
    /\ Last(published).data.lifters = meetData.lifters
    /\ Last(published).data.lastUpdate = meetData.lastUpdate
    /\ \E c \in ClientSet : Last(received[c]) = Last(published)

\* C10: a viewer that joins right after a fetch failed with a non-success
\* status gets, in its initial message, the lifters, federation code and
\* last-update stamp of the most recent update that was broadcast.
C10_InitialEqualsLastBroadcast ==
    [][(/\ lastEvent.kind = "return"
        /\ lastEvent.why = "status"
        /\ lastEvent'.kind = "open"
        /\ lastEvent'.failed = {}
        /\ published # <<>>) =>
          LET initial == Last(received'[lastEvent'.ws]).data
              update == Last(published).data
          IN  /\ initial.lifters = update.lifters
              /\ initial.federation = update.federation
              /\ initial.lastUpdate = update.lastUpdate]_vars

Messages == UNION {{received[c][i] : i \in 1..Len(received[c])} : c \in Clients}

SnapshotFields ==
    {"lifters", "attempts", "divisions", "platforms", "referees", "meetInfo",
     "federation", "lastUpdate"}

EntityMaps(md) ==
    <<md.lifters, md.attempts, md.divisions, md.platforms, md.referees, md.meetInfo>>

\* the entity maps a cycle that runs to completion over one row set installs
WholeSnapshots ==
    {EntityMaps(ProcessData([DefaultMeetData EXCEPT !.federation = FederationCodes[f]],
                            r, 1).md) :
        f \in 1..Len(FederationCodes),
        r \in {x \in UNION {UpstreamFeeds(m) : m \in MeetIds} :
                  ~processAttempts(x, <<>>).threw}}

\* C12: after every step the entity maps of meetData are the empty default or
\* the fully scored outcome of one fetched row set, and a cycle that returns
\* without running to completion leaves meetData as it was.
C12_SnapshotNeverPartial ==
    [][/\ \/ EntityMaps(meetData') = EntityMaps(DefaultMeetData)
          \/ EntityMaps(meetData') \in WholeSnapshots
       /\ (lastEvent'.kind = "return" /\ lastEvent'.outcome # "done") =>
             meetData' = meetData]_vars

AllFeeds == UNION {UpstreamFeeds(m) : m \in MeetIds}

\* the rows of a feed that carry a document
WithDoc(feed) == SelectSeq(feed, LAMBDA row : row.hasDoc)

\* C13: a cycle whose fetch succeeded runs to completion whatever rows the
\* feed holds: it installs the entity maps derived from the rows that carry a
\* document, stamps them and builds one update.
C13_UnknownRowsIgnored ==
    [][(lastEvent'.kind = "return" /\ lastEvent'.why = "ok") =>
          /\ lastEvent'.outcome = "done"
          /\ Len(published') = Len(published) + 1
          /\ \E r \in AllFeeds :
                EntityMaps(meetData') =
                    EntityMaps(ProcessData(meetData, WithDoc(r), 1).md)]_vars

\* the snapshot: every field of meetData but the configured meet id
SnapshotOf(md) ==
    <<md.lifters, md.attempts, md.divisions, md.platforms, md.referees, md.meetInfo,
      md.federation, md.lastUpdate>>

\* C14: the open, close and message handlers leave every field of the
\* snapshot, the federation code included, as it was.
C14_OnlyCycleWritesSnapshot ==
    [][lastEvent'.kind \in {"open", "close", "configure"} =>
          SnapshotOf(meetData') = SnapshotOf(meetData)]_vars

\* C15: a cycle that runs to completion stamps meetData with the time of its
\* completion (never null, never older than the stamp before), builds the
\* update message from the meetData it has just installed and calls send with
\* it for every connected viewer: each viewer whose send returns has it as its
\* newest message.
C15_UpdateAfterEverySuccess ==
    [][(lastEvent'.kind = "return" /\ lastEvent'.outcome = "done") =>
          /\ meetData'.lastUpdate # NoUpdate
          /\ meetData'.lastUpdate >= meetData.lastUpdate
          /\ published' = Append(published, UpdateMessage(meetData'))
          /\ Last(published').data.lastUpdate = meetData'.lastUpdate
          /\ \A c \in ClientSet \ lastEvent'.failed :
                /\ Len(received'[c]) = Len(received[c]) + 1
                /\ Last(received'[c]) = UpdateMessage(meetData')]_vars

C15_Witness ==
    /\ Published
    /\ lastEvent.failed = {}
    /\ Len(connectedClients) = MaxClients
    /\ meetData.lastUpdate = 2
    /\ Len(published) = 2
    /\ published[1].data.lastUpdate = 1
    /\ \A c \in ClientSet : Last(received[c]) = UpdateMessage(meetData)

\* the update messages of a viewer's stream, in the order of their arrival
UpdatesOf(stream) == SelectSeq(stream, LAMBDA m : m.type = "update")

\* s[i..] can be read off t[j..] from left to right
RECURSIVE InOrderFrom(_, _, _, _)
InOrderFrom(s, t, i, j) ==
    IF i > Len(s) THEN TRUE
    ELSE IF j > Len(t) THEN FALSE
    ELSE IF s[i] = t[j] THEN InOrderFrom(s, t, i + 1, j + 1)
    ELSE InOrderFrom(s, t, i, j + 1)

C17_ConfigureStartsFetch ==
    [][(lastEvent'.kind = "configure" /\ meetData'.meetId # "") =>
          /\ inflight' = [inflight EXCEPT ![meetData'.meetId] = @ + 1]
          /\ started' = started + 1]_vars

\* meet B is configured while the fetch for meet A is in flight
C17_Witness ==
    /\ lastEvent.kind = "configure"
    /\ meetData.meetId = "B"
    /\ inflight["A"] = 1
    /\ inflight["B"] = 1

\* C18: a tick while meetData.meetId is unset starts no fetch and leaves
\* meetData, the viewers' streams, the updates built and the connected set as
\* they were.
C18_TickWithoutMeetIsNoOp ==
    [][(lastEvent'.kind = "tick" /\ meetData.meetId = "") =>
          /\ inflight' = inflight
          /\ started' = started
          /\ meetData' = meetData
          /\ received' = received
          /\ published' = published
          /\ connectedClients' = connectedClients]_vars

C18_Witness ==
    /\ lastEvent.kind = "tick"
    /\ meetData.meetId = ""
    /\ connectedClients # <<>>
    /\ started = 0
    /\ published = <<>>

SetOf(clients) == {clients[i] : i \in 1..Len(clients)}

\* C19: the close handler takes the viewer, and no other, out of
\* connectedClients; the same filter for a viewer that is not in the array
\* gives the array back; and no step hands a message to a viewer that has
\* left.
C19_LeaveIdempotent ==
    [][/\ lastEvent'.kind = "close" =>
             /\ connectedClients' = Leave(connectedClients, lastEvent'.ws)
             /\ SetOf(connectedClients') = ClientSet \ {lastEvent'.ws}
             /\ Leave(connectedClients', lastEvent'.ws) = connectedClients'
       /\ \A c \in Clients \ SetOf(connectedClients') :
             /\ Leave(connectedClients', c) = connectedClients'
             /\ wsState'[c] = "closed" => received'[c] = <<>>]_vars

\* an update is published after a viewer has left while another stays
C19_Witness ==
    /\ Published
    /\ \E c \in Clients :
          /\ wsState[c] = "closed"
          /\ c \notin ClientSet
          /\ received[c] = <<>>
          /\ \E d \in ClientSet \ {c} : Last(received[d]) = Last(published)

HasGoodLift(lifter, lift) == \E i \in 1..3 : SlotsOf(lifter, lift).a[i] > 0

\* C20: after scoring and placing, a discipline without a positive slot adds
\* nothing to the total, which is then the sum of the bests of the other
\* disciplines, and a lifter with a positive slot in any discipline has a
\* total of at least that weight and a place.
C20_EmptyDisciplineAddsZero ==
    AfterPlace =>
        \A l \in LifterSet : \A lift \in Lifts :
            /\ ~HasGoodLift(l, lift) =>
                  /\ SlotsOf(l, lift).best = 0
                  /\ \E x, y \in Lifts \ {lift} :
                        /\ x # y
                        /\ l.total = SlotsOf(l, x).best + SlotsOf(l, y).best
            /\ HasGoodLift(l, lift) =>
                  /\ \A i \in 1..3 : l.total >= SlotsOf(l, lift).a[i]
                  /\ l.total > 0
                  /\ l.place # NoPlace

\* squat [1, -2, 2], no bench lift, deadlift [0, 0, 1]: total 3 and a place
C20_Witness ==
    /\ pc = "placed"
    /\ \E l \in LifterSet :
          /\ l.squat.a = <<1, -2, 2>>
          /\ l.bench.a = <<0, 0, 0>>
          /\ l.deadlift.a = <<0, 0, 1>>
          /\ l.total = 3
          /\ l.place = 1

\* C21 as stated: a lifter with a discipline without a positive slot has total
\* 0, any other lifter the sum of the three bests.
C21_TotalZeroIfAnyDisciplineEmpty ==
    AfterBest =>
        \A l \in LifterSet :
            IF \E lift \in Lifts : ~HasGoodLift(l, lift)
            THEN l.total = 0
            ELSE l.total = l.squat.best + l.bench.best + l.deadlift.best

\* C21 (amended): the total is the sum of the bests of the disciplines that
\* have a positive slot, whether or not another discipline has none, and it
\* is 0 only when no discipline has one.
C21_TotalCountsEveryGoodDiscipline ==
    AfterBest =>
        \A l \in LifterSet :
            LET good == {lift \in Lifts : HasGoodLift(l, lift)}
                BestIfGood(lift) == IF lift \in good THEN SlotsOf(l, lift).best ELSE 0
            IN  /\ l.total = BestIfGood("squat") + BestIfGood("bench")
                                + BestIfGood("deadlift")
                /\ (l.total = 0) <=> (good = {})

C21_Witness ==
    /\ pc = "best"
    /\ \E l \in LifterSet :
          /\ HasGoodLift(l, "squat")
          /\ ~HasGoodLift(l, "bench")
          /\ HasGoodLift(l, "deadlift")
          /\ l.total = l.squat.best + l.deadlift.best
          /\ l.total > 0

IsLifterRow(row) == row.hasDoc /\ StartsWith(row._id, "l")

\* the same documents with the lifter documents in the opposite order
Reordered(feed) ==
    LET lifterRows == SelectSeq(feed, IsLifterRow)
        CountTo(i) == Cardinality({j \in 1..i : IsLifterRow(feed[j])})
    IN  [i \in 1..Len(feed) |->
            IF IsLifterRow(feed[i]) THEN lifterRows[Len(lifterRows) + 1 - CountTo(i)]
            ELSE feed[i]]

\* the scored and placed lifters of a whole cycle over a feed
PlacedFrom(feed, federation) ==
    ProcessData([DefaultMeetData EXCEPT !.federation = federation], feed, 1).md.lifters

\* C22: every lifter has the place it gets when the same documents arrive
\* with the lifter documents in another order.
C22_PlaceIndependentOfOrder ==
    AfterPlace =>
        \A l \in LifterSet : l.place = Get(PlacedFrom(Reordered(rows), fed), l.id).place

RefereesOf(platform) ==
    {i \in 1..Len(meetData.referees) : meetData.referees[i].platformId = platform.id}

\* the ways to line up a set of referees by their position labels
LineUps(referees) ==
    {order \in [1..Cardinality(referees) -> referees] :
        /\ \A i, j \in 1..Cardinality(referees) : i # j => order[i] # order[j]
        /\ \A i, j \in 1..Cardinality(referees) :
              i < j => PositionRank(meetData.referees[order[i]].position)
                          <= PositionRank(meetData.referees[order[j]].position)}

\* C23: after processRefereeLights every platform's lights have one element
\* per referee recorded for the platform, in the order of the referees'
\* position labels, and an element is TRUE exactly when that referee's
\* decision is "good".
C23_LightsPerReferee ==
    pc = "lit" =>
        \A p \in 1..Len(meetData.platforms) :
            LET platform == meetData.platforms[p]
                mine == RefereesOf(platform)
            IN  /\ Len(platform.lights) = Cardinality(mine)
                /\ \E order \in LineUps(mine) :
                      \A k \in 1..Cardinality(mine) :
                          platform.lights[k] =
                              (meetData.referees[order[k]].decision = Str("good"))

\* referees arriving as right (good), left (bad), head (good), left (good)
\* give the lights head, left, left, right
C23_Witness ==
    /\ pc = "lit"
    /\ Len(meetData.referees) = 4
    /\ meetData.referees[1].decision = Str("good")
    /\ meetData.referees[2].decision = Str("bad")
    /\ meetData.referees[3].decision = Str("good")
    /\ meetData.referees[4].decision = Str("good")
    /\ meetData.platforms[1].lights = <<TRUE, FALSE, TRUE, TRUE>>

\* the platform document a platform was built from
DocOf(platform) == CHOOSE row \in {rows[i] : i \in 1..Len(rows)} : row._id = platform.id

\* C24: a platform's timerRemaining is the countdown of its document, in
\* seconds, whenever the document carries one (0 included), else its
\* clockTimerLength in seconds when it carries a non-zero one, else 60.
C24_TimerPrefersCountdown ==
    pc \in {"staged", "lit"} =>
        \A p \in 1..Len(meetData.platforms) :
            LET platform == meetData.platforms[p]
                doc == DocOf(platform)
                remaining == RemainingOf(doc.clockState)
            IN  platform.timerRemaining =
                    IF remaining.t = "number" THEN remaining.n \div MsPerSecond
                    ELSE IF Truthy(doc.clockTimerLength)
                         THEN doc.clockTimerLength.n \div MsPerSecond
                         ELSE DefaultTimer

\* the federation whose table is read: an unknown code reads IPF's
ConfigOf(federation) ==
    IF HasConfig(federation) THEN FederationConfigs(federation) ELSE FederationConfigs("IPF")

\* the boundary numbers configured for a sex
BoundariesOf(federation, sexKey) ==
    LET labels == IF sexKey = "FEMALE" THEN ConfigOf(federation).FEMALE
                  ELSE ConfigOf(federation).MALE
    IN  {labels[i][1] : i \in 1..Len(labels)}

Asked == lifters[1]

\* C25: getWeightClass gives "0" for a bodyweight of 0 or an empty sex;
\* otherwise, over the boundaries configured for the sex (those for MALE when
\* the sex is neither MALE nor FEMALE), it gives the smallest boundary that is
\* not below the bodyweight, or the largest boundary with "+" when the
\* bodyweight is above all of them.
C25_SmallestBoundaryAtLeast ==
    pc = "resolved" =>
        LET key == IF ToUpperCase(Asked.sex) \in {"MALE", "FEMALE"}
                   THEN ToUpperCase(Asked.sex) ELSE "MALE"
            boundaries == BoundariesOf(fed, key)
            atLeast == {b \in boundaries : b >= Asked.bodyweight}
        IN  IF Asked.bodyweight = 0 \/ Asked.sex = ""
            THEN Asked.weightClass = <<0, "">>
            ELSE boundaries # {} =>
                    IF atLeast # {}
                    THEN /\ Asked.weightClass[2] = ""
                         /\ Asked.weightClass[1] \in atLeast
                         /\ \A b \in atLeast : Asked.weightClass[1] <= b
                    ELSE /\ Asked.weightClass[2] = "+"
                         /\ Asked.weightClass[1] \in boundaries
                         /\ \A b \in boundaries : b <= Asked.weightClass[1]

\* a female lifter of 4 with IPF boundaries 1 and 3 is in class "3+"
C25_Witness ==
    /\ pc = "resolved"
    /\ fed = "IPF"
    /\ Asked.sex = "female"
    /\ Asked.bodyweight = 4
    /\ Asked.weightClass = <<3, "+">>

\* C26: for a sex that has no boundaries configured in the federation's
\* table, getWeightClass gives the class that the MALE table gives for the
\* bodyweight.
C26_FallsBackToMaleTable ==
    pc = "resolved" =>
        LET key == ToUpperCase(Asked.sex)
        IN  (/\ Asked.sex # ""
             /\ Asked.bodyweight # 0
             /\ (key \notin {"MALE", "FEMALE"} \/ BoundariesOf(fed, key) = {})) =>
                Asked.weightClass = getWeightClass(fed, "MALE", Asked.bodyweight)

\* C27: for the attempt that wrote a slot last, the slot is positive exactly
\* when its result is good, negative exactly when its result is bad and 0
\* exactly when its result is unset.
C27_SignEncodesOutcome ==
    pc \in {"linked", "best", "placed", "rescored"} =>
        \A i \in 1..Len(rows) :
            LastWriter(i) =>
                /\ (SlotOf(rows[i]) > 0) <=> IsResult(rows[i], "good")
                /\ (SlotOf(rows[i]) < 0) <=> IsResult(rows[i], "bad")
                /\ (SlotOf(rows[i]) = 0) <=> IsUnset(rows[i])

\* the feed without its row i
Without(feed, i) == SubSeq(feed, 1, i - 1) \o SubSeq(feed, i + 1, Len(feed))

\* C28: processAttempts runs through, and an attempt document that is not
\* written to a slot (attempt number outside 1..3, a discipline other than
\* squat, bench, deadlift after the alias, or an unknown lifter) is recorded in
\* attempts and leaves the lifters as they are without it.
C28_OtherAttemptsChangeNoLifter ==
    [][(pc = "projected" /\ pc' # "projected") =>
          /\ pc' # "threw"
          /\ \A i \in 1..Len(rows) :
                (rows[i].hasDoc /\ IsAttemptDoc(rows[i]) /\ ~Links(rows[i], lifters)) =>
                    /\ Has(attempts', rows[i]._id)
                    /\ lifters' = processAttempts(Without(rows, i), lifters).lifters]_vars

\* C29: the entity maps a cycle installs when it runs to completion are those
\* a cycle computes from one fetched feed and the configured federation on the
\* empty default snapshot, whatever meetData held before.
C29_DerivedFromScratch ==
    [][(lastEvent'.kind = "return" /\ lastEvent'.outcome = "done") =>
          \E r \in AllFeeds :
              EntityMaps(meetData') =
                  EntityMaps(ProcessData([DefaultMeetData EXCEPT
                                             !.federation = meetData.federation],
                                         r, 1).md)]_vars

\* the feed of meet B (one lifter, one attempt) replaces the snapshot of meet A
\* (two lifters, two attempts, a division, a platform, two referees)
C29_Witness ==
    /\ Published
    /\ Len(published) = 2
    /\ Len(published[1].data.lifters) = 2
    /\ Len(published[1].data.attempts) = 2
    /\ published[1].data.platforms # <<>>
    /\ Len(meetData.lifters) = 1
    /\ Len(meetData.attempts) = 1
    /\ meetData.divisions = <<>>
    /\ meetData.platforms = <<>>
    /\ meetData.referees = <<>>

InitialsOf(stream) == SelectSeq(stream, LAMBDA m : m.type = "initial")

\* C30 as stated: the stream of every connected viewer holds exactly one
\* initial message, and holds it in front of every update.
C30_ExactlyOneInitialFirst ==
    \A c \in ClientSet :
        /\ Len(InitialsOf(received[c])) = 1
        /\ received[c][1].type = "initial"

\* C30 (amended): the stream of every viewer holds at most one initial
\* message, in front of every update, and holds exactly one once the send of
\* its open handler has returned.
C30_AtMostOneInitialFirst ==
    /\ \A c \in Clients :
          \A i \in 1..Len(received[c]) : received[c][i].type = "initial" => i = 1
    /\ (Joined /\ lastEvent.failed = {}) =>
          Len(InitialsOf(received[lastEvent.ws])) = 1

\* one viewer has its initial message and then an update; the other, whose
\* initial send threw, has the update only
C30_Witness ==
    \E c, d \in ClientSet :
        /\ Len(received[c]) = 2
        /\ received[c][1].type = "initial"
        /\ received[c][2].type = "update"
        /\ Len(received[d]) = 1
        /\ received[d][1].type = "update"

\* C31: once meetData.meetId names competition B, the return of a fetch that
\* was started for another competition A installs nothing and publishes
\* nothing: the snapshot and the list of published updates stay as they were.
C31_StaleFetchNotInstalled ==
    [][\A m \in MeetIds :
          (/\ inflight'[m] < inflight[m]
           /\ meetData.meetId \in MeetIds \ {m}) =>
              /\ SnapshotOf(meetData') = SnapshotOf(meetData)
              /\ published' = published]_vars

\* the class getWeightClass resolves for a lifter under a federation code
ClassUnder(federation, lifter) ==
    getWeightClass(federation, lifter.sex, lifter.bodyweight)

\* C32: in every initial or update message a viewer has been sent, each
\* lifter's weightClass is the class resolved for its sex and bodyweight under
\* the federation code the same message carries.
C32_ClassMatchesCarriedFederation ==
    \A m \in Messages :
        \A i \in 1..Len(m.data.lifters) :
            m.data.lifters[i].weightClass = ClassUnder(m.data.federation, m.data.lifters[i])

\* the lifters of l's (divisionId, sex, weightClass) group with a total > 0
RankedWith(l) == {m \in LifterSet : SameGroup(m, l) /\ m.total > 0}

\* C33: after calculatePlacings, in every (divisionId, sex, weightClass) group
\* the places of the lifters with a total > 0 are exactly 1..k for the k such
\* lifters, no place twice and none left out, and a lifter with total 0 holds no
\* place, so it never stands ahead of a lifter with a positive total.
C33_PlacesAreOneToK ==
    AfterPlace =>
        \A l \in LifterSet :
            /\ {m.place : m \in RankedWith(l)} = 1..Cardinality(RankedWith(l))
            /\ \A m, o \in RankedWith(l) : m.place = o.place => m.id = o.id
            /\ l.total = 0 => l.place = NoPlace

\* a lifter without a total is the first of the object, ahead of two lifters
\* of its group that take the places 1 and 2
C33_Witness ==
    /\ pc = "placed"
    /\ Len(lifters) = 3
    /\ lifters[1].total = 0 /\ lifters[1].place = NoPlace
    /\ SameGroup(lifters[1], lifters[2]) /\ SameGroup(lifters[1], lifters[3])
    /\ lifters[2].total > 0 /\ lifters[3].total > 0
    /\ {lifters[2].place, lifters[3].place} = {1, 2}

====
